---- MODULE Spec2Model ----
(***************************************************************************)
(* GalacticHire recruiter dashboard.                                       *)
(*                                                                         *)
(* Part I   InterviewQuestions component (question list, add, delete,      *)
(*          fetch) together with the remote tables it talks to.            *)
(* Part II  Dashboard component: filter engine, derived view, chat box.    *)
(*                                                                         *)
(* Strings the code inspects (trim, toLowerCase, includes, parseInt) are   *)
(* sequences of one-character strings; strings it only stores or shows     *)
(* are TLA+ strings.  Every await is split in three: the request leaves    *)
(* the handler, the remote store serves it, the handler resumes on the     *)
(* response.  React state written by a handler segment is visible to the   *)
(* next segment that runs; values read through a closure are the values    *)
(* of the render in which the handler was invoked.                         *)
(***************************************************************************)
EXTENDS Integers, Sequences, FiniteSets, TLC

\* ------------------------------------------------------------------ bounds
\* number of fetchQuestions / addQuestion / deleteQuestion invocations in a run
MaxInv == 3
\* number of sendChat invocations in a run
MaxChat == 2
\* number of invocations in a run, over all components
MaxRequests == 4
\* length of the fetched collection
MaxVideos == 2
\* number of loadInterviews invocations in a run
MaxLoads == 2

\* ------------------------------------------------------- small input sets
Null == "null"
Recruiters == {"r1", "r2"}
ErrMsgs == {"remote error"}
Texts == {<< >>, <<" ">>, <<"a">>}
OrderIndexValues == {0}
NoInterview == 0
NoJoin == "nojoin"

\* ------------------------------------------------------------ string ops
IsSpace(c) == c = " "

RECURSIVE TrimStart(_)
TrimStart(s) ==
  IF s = << >> THEN << >>
  ELSE IF IsSpace(Head(s)) THEN TrimStart(Tail(s)) ELSE s

RECURSIVE TrimEnd(_)
TrimEnd(s) ==
  IF s = << >> THEN << >>
  ELSE IF IsSpace(s[Len(s)]) THEN TrimEnd(SubSeq(s, 1, Len(s) - 1)) ELSE s

\* String.prototype.trim
Trim(s) == TrimEnd(TrimStart(s))

\* -------------------------------------------------------------- variables
VARIABLES
  recruiterId,          \* prop of InterviewQuestions
  effectDue,            \* the [recruiterId] effect has yet to run
  questions,            \* useState<Question[]>
  newQuestion,          \* useState("")
  loading,              \* useState(false)
  error,                \* useState<string | null>
  inv,                  \* handler invocations, in order of invocation
  interview,            \* remote table "interview"
  interview_questions,  \* remote table "interview_questions"
  nextQid               \* next identifier the remote store hands out

qvars == <<recruiterId, effectDue, questions, newQuestion, loading, error,
           inv, interview, interview_questions, nextQid>>

VARIABLES
  videos,               \* prop of Dashboard: the fetched collection
  filters,              \* useState<FilterOptions>
  filteredVideos,       \* useMemo over [videos, filters]
  chatInput,            \* useState("")
  chatReply,            \* useState<string | null>
  isChatLoading,        \* useState(false)
  isChatOpen,           \* useState(false)
  chat                  \* sendChat invocations, in order of invocation

fvars == <<videos, filters, filteredVideos>>
cvars == <<chatInput, chatReply, isChatLoading, isChatOpen, chat>>
dvars == <<fvars, cvars>>

VARIABLES
  pageLoading,          \* RecruiterDashboardPage: useState<boolean>(true)
  pageError,            \* RecruiterDashboardPage: useState<string | null>(null)
  pageInterviews,           \* RecruiterDashboardPage: useState<Interview[]>([])
  loads                 \* loadInterviews invocations, in order of invocation

pvars == <<pageLoading, pageError, pageInterviews, loads>>

vars == <<qvars, dvars, pvars>>

\* ------------------------------------------------------------ remote rows
InterviewRow(id, r) == [id |-> id, recruiter_id |-> r, created_at |-> id]

QuestionRow(id, text, oi, iid) ==
  [id |-> id, question |-> text, order_index |-> oi, interview_id |-> iid]

\* a question row as the client holds it: interview is the embedded join
\* (NoJoin when the row came back from an insert, or the join found nothing)
ClientRow(q, join) ==
  [id |-> q.id, question |-> q.question, order_index |-> q.order_index,
   interview_id |-> q.interview_id, interview |-> join]

BaseRow(c) == QuestionRow(c.id, c.question, c.order_index, c.interview_id)

Ids(seq) == {seq[k].id : k \in 1..Len(seq)}

\* the ids of the questions the remote store holds for recruiter r
OwnedIds(r) ==
  {q.id : q \in {x \in interview_questions :
                   \E iv \in interview : iv.id = x.interview_id /\ iv.recruiter_id = r}}

\* ------------------------------------------------------- invocation record
NoResp == [ok |-> FALSE, msg |-> "", rows |-> << >>]

NewInv(kind, pc, target) ==
  [kind |-> kind, pc |-> pc,
   rid |-> recruiterId,        \* closure: recruiterId
   qs |-> questions,           \* closure: questions
   text |-> newQuestion,       \* closure: newQuestion
   target |-> target,          \* deleteQuestion(id)
   interviewId |-> NoInterview,
   resp |-> NoResp,
   \* history, for stating properties only
   nLookup |-> 0, nCreate |-> 0, nInsert |-> 0, nDelete |-> 0, nSelect |-> 0,
   overlapped |-> FALSE,
   ivAtStart |-> {iv.id : iv \in {x \in interview : x.recruiter_id = recruiterId}},
   after |-> {k \in 1..Len(inv) : inv[k].kind = "add" /\ inv[k].pc = "done" /\ inv[k].resp.ok},
   madeI |-> 0, madeQ |-> 0,
   inSync |-> /\ \A k \in 1..Len(inv) : inv[k].pc = "done"
              /\ Ids(questions) = OwnedIds(recruiterId),
   seenQ |-> {}, seenI |-> {}, lookedUp |-> {}]

\* a handler that has run to its end: what it captured and received is dropped;
\* of its history stay the requests it made and, for a mutation, whether it
\* succeeded
Settled(r) ==
  [r EXCEPT !.pc = "done", !.qs = << >>, !.text = << >>,
            !.resp = [ok |-> /\ r.kind # "fetch"
                             /\ r.resp.ok
                             /\ (r.kind = "add" => Len(r.resp.rows) > 0),
                      msg |-> "", rows |-> << >>],
            !.seenQ = {}, !.seenI = {}, !.lookedUp = {}]

InFlight(i) == inv[i].pc # "done"

\* the run may start one more handler of InterviewQuestions
Room == Len(inv) < MaxInv /\ Len(inv) + Len(chat) + Len(loads) < MaxRequests
Running(kind) == {i \in 1..Len(inv) : inv[i].kind = kind /\ InFlight(i)}


\* ------------------------------------------------------------ pure helpers
\* the filter without its ownership test
FilterOwned_anyJoined(data, rid) ==
  SelectSeq(data, LAMBDA q : q.interview # NoJoin)

\* line 48: (data || []).filter(q => q.interview && q.interview.recruiter_id === recruiterId)
FilterOwned(data, rid) ==
  SelectSeq(data, LAMBDA q : q.interview # NoJoin /\ q.interview = rid)

\* line 99: [...questions, questionData]
AppendQuestion(qs, questionData) == Append(qs, questionData)

\* the predicate of line 116 inverted
RemoveById_inverted(prev, id) == SelectSeq(prev, LAMBDA q : q.id = id)

\* line 116: prev.filter((q) => q.id !== id)
RemoveById(prev, id) == SelectSeq(prev, LAMBDA q : q.id # id)

\* line 75: interviews[0].id
FirstInterviewId(interviews) == interviews[1].id

\* line 140: the skeleton replaces the list and the form
FormVisible == ~(loading /\ Len(questions) = 0)

\* -------------------------------------------------------------- the store
\* select("*, interview:interview_id(recruiter_id)"): each question row with
\* the recruiter of the interview it points at, if that interview exists
Joined(q) ==
  LET owner == {iv \in interview : iv.id = q.interview_id}
  IN  ClientRow(q, IF owner = {} THEN NoJoin ELSE (CHOOSE iv \in owner : TRUE).recruiter_id)

\* order("order_index"): every ascending arrangement; ties come in any order
RECURSIVE SortedSeqs(_)
SortedSeqs(S) ==
  IF S = {} THEN {<< >>}
  ELSE UNION { {<<m>> \o t : t \in SortedSeqs(S \ {m})} :
               m \in {x \in S : \A y \in S : x.order_index <= y.order_index} }

Fail(i, pc, m) ==
  inv' = [inv EXCEPT ![i].pc = pc, ![i].resp = [ok |-> FALSE, msg |-> m, rows |-> << >>]]

Reply(rows) == [ok |-> TRUE, msg |-> "", rows |-> rows]

\* interview_questions.select(...).order("order_index")
ServeSelect(i) ==
  /\ inv[i].pc = "select_sent"
  /\ \/ \E m \in ErrMsgs : Fail(i, "select_replied", m)
     \/ \E rows \in SortedSeqs({Joined(q) : q \in interview_questions}) :
          inv' = [inv EXCEPT ![i].pc = "select_replied", ![i].resp = Reply(rows),
                             ![i].seenQ = interview_questions, ![i].seenI = interview]
  /\ UNCHANGED <<recruiterId, effectDue, questions, newQuestion, loading, error,
                 interview, interview_questions, nextQid>>
  /\ UNCHANGED <<dvars, pvars>>

\* the lookup without its eq("recruiter_id", ...) filter
ServeLookup_anyRecruiter(i) ==
  /\ inv[i].pc = "lookup_sent"
  /\ LET mine == {iv \in interview : iv.recruiter_id = inv[i].rid}
     IN  \/ \E m \in ErrMsgs : Fail(i, "lookup_replied", m)
         \/ /\ interview = {}
            /\ inv' = [inv EXCEPT ![i].pc = "lookup_replied", ![i].resp = Reply(<< >>),
                                  ![i].lookedUp = {}]
         \/ \E iv \in interview :
              inv' = [inv EXCEPT ![i].pc = "lookup_replied",
                                 ![i].resp = Reply(<<[id |-> iv.id]>>),
                                 ![i].lookedUp = {x.id : x \in mine}]
  /\ UNCHANGED <<recruiterId, effectDue, questions, newQuestion, loading, error,
                 interview, interview_questions, nextQid>>
  /\ UNCHANGED <<dvars, pvars>>

\* interview.select("id").eq("recruiter_id", r).limit(1): no order is asked
\* for, so any one of the recruiter's interviews may be the row returned
ServeLookup(i) ==
  /\ inv[i].pc = "lookup_sent"
  /\ LET mine == {iv \in interview : iv.recruiter_id = inv[i].rid}
     IN  \/ \E m \in ErrMsgs : Fail(i, "lookup_replied", m)
         \/ /\ mine = {}
            /\ inv' = [inv EXCEPT ![i].pc = "lookup_replied", ![i].resp = Reply(<< >>),
                                  ![i].lookedUp = {}]
         \/ \E iv \in mine :
              inv' = [inv EXCEPT ![i].pc = "lookup_replied",
                                 ![i].resp = Reply(<<[id |-> iv.id]>>),
                                 ![i].lookedUp = {x.id : x \in mine}]
  /\ UNCHANGED <<recruiterId, effectDue, questions, newQuestion, loading, error,
                 interview, interview_questions, nextQid>>
  /\ UNCHANGED <<dvars, pvars>>

\* interview.insert({recruiter_id, invite_code}).select().single()
ServeCreate(i) ==
  /\ inv[i].pc = "create_sent"
  /\ \/ /\ \E m \in ErrMsgs : Fail(i, "create_replied", m)
        /\ UNCHANGED interview
     \/ LET row == InterviewRow(Cardinality(interview) + 1, inv[i].rid)
        IN  /\ interview' = interview \cup {row}
            /\ inv' = [inv EXCEPT ![i].pc = "create_replied", ![i].resp = Reply(<<row>>),
                                  ![i].madeI = row.id]
  /\ UNCHANGED <<recruiterId, effectDue, questions, newQuestion, loading, error,
                 interview_questions, nextQid>>
  /\ UNCHANGED <<dvars, pvars>>

\* interview_questions.insert([{interview_id, question}]).select().single()
\* order_index is not sent: the store fills in its own value
ServeInsert(i) ==
  /\ inv[i].pc = "insert_sent"
  /\ \/ /\ \E m \in ErrMsgs : Fail(i, "insert_replied", m)
        /\ UNCHANGED <<interview_questions, nextQid>>
     \/ /\ inv' = [inv EXCEPT ![i].pc = "insert_replied", ![i].resp = Reply(<< >>)]
        /\ UNCHANGED <<interview_questions, nextQid>>
     \/ \E oi \in OrderIndexValues :
          LET row == QuestionRow(nextQid, inv[i].text, oi, inv[i].interviewId)
          IN  /\ interview_questions' = interview_questions \cup {row}
              /\ nextQid' = nextQid + 1
              /\ inv' = [inv EXCEPT ![i].pc = "insert_replied",
                                    ![i].resp = Reply(<<ClientRow(row, NoJoin)>>),
                                    ![i].madeQ = row.id]
  /\ UNCHANGED <<recruiterId, effectDue, questions, newQuestion, loading, error,
                 interview>>
  /\ UNCHANGED <<dvars, pvars>>

\* interview_questions.delete().eq("id", id)
ServeDelete(i) ==
  /\ inv[i].pc = "delete_sent"
  /\ \/ /\ \E m \in ErrMsgs : Fail(i, "delete_replied", m)
        /\ UNCHANGED interview_questions
     \/ /\ interview_questions' = {q \in interview_questions : q.id # inv[i].target}
        /\ inv' = [inv EXCEPT ![i].pc = "delete_replied", ![i].resp = Reply(<< >>)]
  /\ UNCHANGED <<recruiterId, effectDue, questions, newQuestion, loading, error,
                 interview, nextQid>>
  /\ UNCHANGED <<dvars, pvars>>


\* ------------------------------------------------- InterviewQuestions.tsx
\* lines 38-54: the effect body for the rendered recruiterId r; fetchQuestions
\* up to its await
useEffect(r) ==
  IF r # ""
    THEN /\ Room
         /\ loading' = TRUE
         /\ inv' = Append(inv, [NewInv("fetch", "select_sent", 0) EXCEPT
                                  !.rid = r, !.nSelect = 1])
    ELSE UNCHANGED <<loading, inv>>

\* the effect of the first render
Mount ==
  /\ effectDue
  /\ effectDue' = FALSE
  /\ useEffect(recruiterId)
  /\ UNCHANGED <<recruiterId, questions, newQuestion, error,
                 interview, interview_questions, nextQid>>
  /\ UNCHANGED <<dvars, pvars>>

\* lines 45-51: fetchQuestions after its await
FetchQuestionsDone(i) ==
  /\ ~effectDue
  /\ inv[i].pc = "select_replied"
  /\ IF ~inv[i].resp.ok
       THEN error' = inv[i].resp.msg /\ UNCHANGED questions
       ELSE questions' = FilterOwned(inv[i].resp.rows, inv[i].rid) /\ UNCHANGED error
  /\ loading' = FALSE
  /\ inv' = [inv EXCEPT ![i] = Settled(inv[i])]
  /\ UNCHANGED <<recruiterId, effectDue, newQuestion, interview, interview_questions, nextQid>>
  /\ UNCHANGED <<dvars, pvars>>

\* the parent renders the component with another recruiterId: the dependency
\* of line 54 has changed, the effect runs again
ChangeRecruiter(r) ==
  /\ ~effectDue
  /\ r # recruiterId
  /\ recruiterId' = r
  /\ useEffect(r)
  /\ UNCHANGED <<effectDue, questions, newQuestion, error,
                 interview, interview_questions, nextQid>>
  /\ UNCHANGED <<dvars, pvars>>

\* line 200: onChange={(e) => setNewQuestion(e.target.value)}
OnChange(t) ==
  /\ ~effectDue
  /\ FormVisible
  /\ t # newQuestion
  /\ newQuestion' = t
  /\ UNCHANGED <<recruiterId, effectDue, questions, loading, error, inv,
                 interview, interview_questions, nextQid>>
  /\ UNCHANGED <<dvars, pvars>>

\* addQuestion whose guard tests the text without trimming it
addQuestion_noTrim ==
  IF newQuestion = << >>
    THEN UNCHANGED qvars
    ELSE /\ Room
         /\ loading' = TRUE
         /\ error' = Null
         /\ inv' = Append([k \in 1..Len(inv) |->
                             IF inv[k].kind = "add" /\ InFlight(k)
                               THEN [inv[k] EXCEPT !.overlapped = TRUE] ELSE inv[k]],
                          [NewInv("add", "lookup_sent", 0) EXCEPT
                             !.nLookup = 1, !.overlapped = (Running("add") # {})])
         /\ UNCHANGED <<recruiterId, effectDue, questions, newQuestion,
                        interview, interview_questions, nextQid>>

\* lines 56-66: addQuestion up to its first await
addQuestion ==
  IF Trim(newQuestion) = << >>
    THEN UNCHANGED qvars
    ELSE /\ Room
         /\ loading' = TRUE
         /\ error' = Null
         /\ inv' = Append([k \in 1..Len(inv) |->
                             IF inv[k].kind = "add" /\ InFlight(k)
                               THEN [inv[k] EXCEPT !.overlapped = TRUE] ELSE inv[k]],
                          [NewInv("add", "lookup_sent", 0) EXCEPT
                             !.nLookup = 1, !.overlapped = (Running("add") # {})])
         /\ UNCHANGED <<recruiterId, effectDue, questions, newQuestion,
                        interview, interview_questions, nextQid>>

\* line 201: onKeyDown={(e) => e.key === "Enter" && addQuestion()}
PressEnter ==
  /\ ~effectDue
  /\ FormVisible
  /\ addQuestion
  /\ UNCHANGED <<dvars, pvars>>

\* lines 205-207: <button onClick={addQuestion} disabled={loading || !newQuestion.trim()}>
ClickAdd ==
  /\ ~effectDue
  /\ FormVisible
  /\ ~(loading \/ Trim(newQuestion) = << >>)
  /\ addQuestion
  /\ UNCHANGED <<dvars, pvars>>

\* addQuestion that asks for a new interview whatever the lookup returned
AddQuestionAfterLookup_alwaysCreate(i) ==
  /\ ~effectDue
  /\ inv[i].pc = "lookup_replied"
  /\ IF ~inv[i].resp.ok
       THEN /\ error' = inv[i].resp.msg
            /\ loading' = FALSE
            /\ inv' = [inv EXCEPT ![i] = Settled(inv[i])]
       ELSE /\ inv' = [inv EXCEPT ![i].pc = "create_sent", ![i].nCreate = @ + 1]
            /\ UNCHANGED <<error, loading>>
  /\ UNCHANGED <<recruiterId, effectDue, questions, newQuestion,
                 interview, interview_questions, nextQid>>
  /\ UNCHANGED <<dvars, pvars>>

\* lines 68-88 when the lookup has answered: leave on error, reuse the first
\* row, or ask for a new interview
AddQuestionAfterLookup(i) ==
  /\ ~effectDue
  /\ inv[i].pc = "lookup_replied"
  /\ IF ~inv[i].resp.ok
       THEN /\ error' = inv[i].resp.msg
            /\ loading' = FALSE
            /\ inv' = [inv EXCEPT ![i] = Settled(inv[i])]
       ELSE /\ IF Len(inv[i].resp.rows) > 0
                 THEN inv' = [inv EXCEPT ![i].pc = "insert_sent",
                                         ![i].interviewId = FirstInterviewId(inv[i].resp.rows),
                                         ![i].nInsert = @ + 1]
                 ELSE inv' = [inv EXCEPT ![i].pc = "create_sent", ![i].nCreate = @ + 1]
            /\ UNCHANGED <<error, loading>>
  /\ UNCHANGED <<recruiterId, effectDue, questions, newQuestion,
                 interview, interview_questions, nextQid>>
  /\ UNCHANGED <<dvars, pvars>>

\* addQuestion that leaves on a failed interview insert without setLoading(false)
AddQuestionAfterCreate_keepsLoading(i) ==
  /\ ~effectDue
  /\ inv[i].pc = "create_replied"
  /\ IF ~inv[i].resp.ok
       THEN /\ error' = inv[i].resp.msg
            /\ UNCHANGED loading
            /\ inv' = [inv EXCEPT ![i] = Settled(inv[i])]
       ELSE /\ inv' = [inv EXCEPT ![i].pc = "insert_sent",
                                  ![i].interviewId = inv[i].resp.rows[1].id,
                                  ![i].nInsert = @ + 1]
            /\ UNCHANGED <<error, loading>>
  /\ UNCHANGED <<recruiterId, effectDue, questions, newQuestion,
                 interview, interview_questions, nextQid>>
  /\ UNCHANGED <<dvars, pvars>>

\* lines 82-92 when the interview insert has answered
AddQuestionAfterCreate(i) ==
  /\ ~effectDue
  /\ inv[i].pc = "create_replied"
  /\ IF ~inv[i].resp.ok
       THEN /\ error' = inv[i].resp.msg
            /\ loading' = FALSE
            /\ inv' = [inv EXCEPT ![i] = Settled(inv[i])]
       ELSE /\ inv' = [inv EXCEPT ![i].pc = "insert_sent",
                                  ![i].interviewId = inv[i].resp.rows[1].id,
                                  ![i].nInsert = @ + 1]
            /\ UNCHANGED <<error, loading>>
  /\ UNCHANGED <<recruiterId, effectDue, questions, newQuestion,
                 interview, interview_questions, nextQid>>
  /\ UNCHANGED <<dvars, pvars>>

\* addQuestion that clears the typed text on every path
AddQuestionDone_clearOnError(i) ==
  /\ ~effectDue
  /\ inv[i].pc = "insert_replied"
  /\ IF ~inv[i].resp.ok
       THEN error' = inv[i].resp.msg /\ newQuestion' = << >> /\ UNCHANGED questions
       ELSE IF Len(inv[i].resp.rows) > 0
         THEN /\ questions' = AppendQuestion(inv[i].qs, inv[i].resp.rows[1])
              /\ newQuestion' = << >>
              /\ UNCHANGED error
         ELSE UNCHANGED <<questions, newQuestion, error>>
  /\ loading' = FALSE
  /\ inv' = [inv EXCEPT ![i] = Settled(inv[i])]
  /\ UNCHANGED <<recruiterId, effectDue, interview, interview_questions, nextQid>>
  /\ UNCHANGED <<dvars, pvars>>

\* lines 96-102 when the question insert has answered
AddQuestionDone(i) ==
  /\ ~effectDue
  /\ inv[i].pc = "insert_replied"
  /\ IF ~inv[i].resp.ok
       THEN error' = inv[i].resp.msg /\ UNCHANGED <<questions, newQuestion>>
       ELSE IF Len(inv[i].resp.rows) > 0
         THEN /\ questions' = AppendQuestion(inv[i].qs, inv[i].resp.rows[1])
              /\ newQuestion' = << >>
              /\ UNCHANGED error
         ELSE UNCHANGED <<questions, newQuestion, error>>
  /\ loading' = FALSE
  /\ inv' = [inv EXCEPT ![i] = Settled(inv[i])]
  /\ UNCHANGED <<recruiterId, effectDue, interview, interview_questions, nextQid>>
  /\ UNCHANGED <<dvars, pvars>>

\* lines 105-111: deleteQuestion up to its await
deleteQuestion(id) ==
  /\ Room
  /\ loading' = TRUE
  /\ error' = Null
  /\ inv' = Append(inv, [NewInv("delete", "delete_sent", id) EXCEPT !.nDelete = 1])
  /\ UNCHANGED <<recruiterId, effectDue, questions, newQuestion,
                 interview, interview_questions, nextQid>>

\* lines 175-180: the remove button of row k, disabled={loading}
ClickRemove(k) ==
  /\ ~effectDue
  /\ FormVisible
  /\ k \in 1..Len(questions)
  /\ ~loading
  /\ deleteQuestion(questions[k].id)
  /\ UNCHANGED <<dvars, pvars>>

\* lines 113-118: deleteQuestion after its await
DeleteQuestionDone(i) ==
  /\ ~effectDue
  /\ inv[i].pc = "delete_replied"
  /\ IF ~inv[i].resp.ok
       THEN error' = inv[i].resp.msg /\ UNCHANGED questions
       ELSE questions' = RemoveById(questions, inv[i].target) /\ UNCHANGED error
  /\ loading' = FALSE
  /\ inv' = [inv EXCEPT ![i] = Settled(inv[i])]
  /\ UNCHANGED <<recruiterId, effectDue, newQuestion, interview, interview_questions, nextQid>>
  /\ UNCHANGED <<dvars, pvars>>

\* ====================================================== Part II: Dashboard
\* ------------------------------------------------------------ JS numbers
\* a number is NaN or an integer
NaN == [nan |-> TRUE, v |-> 0]
Num(n) == [nan |-> FALSE, v |-> n]

\* a % b of JavaScript, b > 0: the sign follows the dividend
JsRem(a, b) == IF a >= 0 THEN a % b ELSE -((-a) % b)

UpperCase == <<"A","B","C","D","E","F","G","H","I","J","K","L","M",
               "N","O","P","Q","R","S","T","U","V","W","X","Y","Z">>
Digits36 == <<"0","1","2","3","4","5","6","7","8","9",
              "a","b","c","d","e","f","g","h","i","j","k","l","m",
              "n","o","p","q","r","s","t","u","v","w","x","y","z">>

\* every character a modelled string is made of
Alphabet ==
  {UpperCase[k] : k \in 1..26} \cup {Digits36[k] : k \in 1..36} \cup {" ", "-", "+", "@", "."}

LowerMap ==
  [c \in Alphabet |->
     LET at == {k \in 1..26 : UpperCase[k] = c}
     IN  IF at = {} THEN c ELSE Digits36[10 + (CHOOSE k \in at : TRUE)]]

Lower(c) == LowerMap[c]

\* String.prototype.toLowerCase
ToLowerCase(s) == [k \in 1..Len(s) |-> Lower(s[k])]

\* String.prototype.includes
Includes(s, sub) ==
  \E k \in 0..(Len(s) - Len(sub)) : SubSeq(s, k + 1, k + Len(sub)) = sub

\* value of c as a digit in the radix, -1 when it is none
DigitMap ==
  [c \in Alphabet |->
     LET at == {k \in 1..36 : Digits36[k] = Lower(c)}
     IN  IF at = {} THEN -1 ELSE (CHOOSE k \in at : TRUE) - 1]

DigitValue(c, radix) == IF DigitMap[c] < radix THEN DigitMap[c] ELSE -1

RECURSIVE LeadingDigits(_, _)
LeadingDigits(s, radix) ==
  IF s = << >> \/ DigitValue(Head(s), radix) < 0 THEN 0
  ELSE 1 + LeadingDigits(Tail(s), radix)

RECURSIVE DigitsValue(_, _)
DigitsValue(s, radix) ==
  IF s = << >> THEN 0
  ELSE DigitsValue(SubSeq(s, 1, Len(s) - 1), radix) * radix + DigitValue(s[Len(s)], radix)

\* parseInt(s, radix): leading white space, an optional sign, then the longest
\* run of digits; NaN when there is no digit
ParseInt(s, radix) ==
  LET t == TrimStart(s)
      signed == t # << >> /\ Head(t) \in {"-", "+"}
      body == IF signed THEN Tail(t) ELSE t
      n == LeadingDigits(body, radix)
      mag == DigitsValue(SubSeq(body, 1, n), radix)
  IN  IF n = 0 THEN NaN
      ELSE Num(IF signed /\ Head(t) = "-" THEN -mag ELSE mag)

\* parseInt(s) with no radix: radix 16 after a 0x or 0X prefix, else radix 10
ParseIntNoRadix(s) ==
  LET t == TrimStart(s)
      signed == t # << >> /\ Head(t) \in {"-", "+"}
      body == IF signed THEN Tail(t) ELSE t
      hex == Len(body) >= 2 /\ body[1] = "0" /\ body[2] \in {"x", "X"}
      digits == IF hex THEN SubSeq(body, 3, Len(body)) ELSE body
      radix == IF hex THEN 16 ELSE 10
      n == LeadingDigits(digits, radix)
      mag == DigitsValue(SubSeq(digits, 1, n), radix)
  IN  IF n = 0 THEN NaN
      ELSE Num(IF signed /\ Head(t) = "-" THEN -mag ELSE mag)

\* ----------------------------------------------------------------- dates
MinutesPerDay == 1440

\* a timestamp string of January 2024, or one Date cannot parse
DateString(day, hour, minute) == [valid |-> TRUE, day |-> day, hour |-> hour, minute |-> minute]
BadDateString == [valid |-> FALSE, day |-> 0, hour |-> 0, minute |-> 0]

\* new Date(s): minutes since 2023-12-31 00:00, NaN for an invalid date
NewDate(s) ==
  IF s.valid THEN Num((s.day * 24 + s.hour) * 60 + s.minute) ELSE NaN

\* the end bound left where it is
PlusOneDay_sameDay(d) == d

\* the end bound moved two days on
PlusOneDay_twoDays(d) == IF d.nan THEN NaN ELSE Num(d.v + 2 * MinutesPerDay)

\* d.setDate(d.getDate() + 1)
PlusOneDay(d) == IF d.nan THEN NaN ELSE Num(d.v + MinutesPerDay)

\* relational operators: false as soon as one side is NaN
Lt(a, b) == ~a.nan /\ ~b.nan /\ a.v < b.v
Gt(a, b) == ~a.nan /\ ~b.nan /\ a.v > b.v
Ge(a, b) == ~a.nan /\ ~b.nan /\ a.v >= b.v
Le(a, b) == ~a.nan /\ ~b.nan /\ a.v <= b.v

\* ---------------------------------------------------------------- records
\* an optional value is a sequence of length 0 or 1
None == << >>
Some(x) == <<x>>

Candidate(full_name, email, experience) ==
  [full_name |-> full_name, email |-> email, experience |-> experience]

Video(id, title, candidate_details, created_at) ==
  [id |-> id, title |-> title, candidate_details |-> candidate_details,
   created_at |-> created_at]

\* ---------------------------------------------------------- Filter Engine
\* the text match without its toLowerCase calls
matchesSearchQuery_caseSensitive(video, query) ==
  \/ Includes(video.title, query)
  \/ /\ video.candidate_details # None
     /\ LET candidate == video.candidate_details[1]
        IN  \/ Includes(candidate.full_name, query)
            \/ Includes(candidate.email, query)
            \/ /\ candidate.experience # None
               /\ Includes(candidate.experience[1], query)

\* lines 255-267
matchesSearchQuery(video, query) ==
  LET lowerCaseQuery == ToLowerCase(query)
  IN  \/ Includes(ToLowerCase(video.title), lowerCaseQuery)
      \/ /\ video.candidate_details # None
         /\ LET candidate == video.candidate_details[1]
            IN  \/ Includes(ToLowerCase(candidate.full_name), lowerCaseQuery)
                \/ Includes(ToLowerCase(candidate.email), lowerCaseQuery)
                \/ /\ candidate.experience # None
                   /\ Includes(ToLowerCase(candidate.experience[1]), lowerCaseQuery)

\* lines 269-278
matchesExperienceLevel(video, levels) ==
  IF \/ video.candidate_details = None
     \/ video.candidate_details[1].experience = None
     \/ video.candidate_details[1].experience[1] = << >>
    THEN FALSE
    ELSE LET expYears == ParseIntNoRadix(video.candidate_details[1].experience[1])
         IN  \E level \in levels :
               \/ level = "0-2" /\ Ge(expYears, Num(0)) /\ Le(expYears, Num(2))
               \/ level = "3-5" /\ Ge(expYears, Num(3)) /\ Le(expYears, Num(5))
               \/ level = "5+" /\ Gt(expYears, Num(5))

\* a rating derived from the title of the record
mockRating_fromTitle(video) ==
  LET n == ParseInt(video.title, 36)
  IN  IF n.nan THEN NaN ELSE Num(JsRem(n.v, 20) * 25 + 300)

\* line 281: (parseInt(video.id, 36) % 20) / 4 + 3, in hundredths
mockRating(video) ==
  LET n == ParseInt(video.id, 36)
  IN  IF n.nan THEN NaN ELSE Num(JsRem(n.v, 20) * 25 + 300)

\* lines 280-283; minRating in hundredths
matchesRatingMin(video, minRating) == Ge(mockRating(video), Num(minRating))

\* a date test that drops a record without a timestamp once a bound is set
matchesDateRange_missingExcluded(video, dateRange) ==
  IF video.created_at = None THEN dateRange.start = None /\ dateRange.end = None
  ELSE LET videoDate == NewDate(video.created_at[1])
       IN  IF dateRange.start # None /\ Lt(videoDate, dateRange.start[1]) THEN FALSE
           ELSE IF dateRange.end # None /\ Gt(videoDate, PlusOneDay(dateRange.end[1]))
             THEN FALSE
             ELSE TRUE

\* a date test that also drops a record dated exactly at the start bound
matchesDateRange_startExclusive(video, dateRange) ==
  IF video.created_at = None THEN TRUE
  ELSE LET videoDate == NewDate(video.created_at[1])
       IN  IF dateRange.start # None /\ Le(videoDate, dateRange.start[1]) THEN FALSE
           ELSE IF dateRange.end # None /\ Gt(videoDate, PlusOneDay(dateRange.end[1]))
             THEN FALSE
             ELSE TRUE

\* lines 285-295
matchesDateRange(video, dateRange) ==
  IF video.created_at = None THEN TRUE
  ELSE LET videoDate == NewDate(video.created_at[1])
       IN  IF dateRange.start # None /\ Lt(videoDate, dateRange.start[1]) THEN FALSE
           ELSE IF dateRange.end # None /\ Gt(videoDate, PlusOneDay(dateRange.end[1]))
             THEN FALSE
             ELSE TRUE

\* the predicate with its rating test applied at every threshold
Keeps_ratingAlways(video, f) ==
  IF f.searchQuery # << >> /\ ~matchesSearchQuery(video, f.searchQuery) THEN FALSE
  ELSE IF "all" \notin f.experienceLevel /\ ~matchesExperienceLevel(video, f.experienceLevel)
    THEN FALSE
  ELSE IF ~matchesRatingMin(video, f.ratingMin) THEN FALSE
  ELSE IF ~matchesDateRange(video, f.dateRange) THEN FALSE
  ELSE TRUE

\* a predicate that lets a text match stand for the other criteria
Keeps_textSuffices(video, f) ==
  IF f.searchQuery # << >> /\ matchesSearchQuery(video, f.searchQuery) THEN TRUE
  ELSE IF f.searchQuery # << >> THEN FALSE
  ELSE IF "all" \notin f.experienceLevel /\ ~matchesExperienceLevel(video, f.experienceLevel)
    THEN FALSE
  ELSE IF f.ratingMin > 0 /\ ~matchesRatingMin(video, f.ratingMin) THEN FALSE
  ELSE IF ~matchesDateRange(video, f.dateRange) THEN FALSE
  ELSE TRUE

\* a predicate that bypasses the experience test only when "all" is selected alone
Keeps_allAlone(video, f) ==
  IF f.searchQuery # << >> /\ ~matchesSearchQuery(video, f.searchQuery) THEN FALSE
  ELSE IF f.experienceLevel # {"all"} /\ ~matchesExperienceLevel(video, f.experienceLevel)
    THEN FALSE
  ELSE IF f.ratingMin > 0 /\ ~matchesRatingMin(video, f.ratingMin) THEN FALSE
  ELSE IF ~matchesDateRange(video, f.dateRange) THEN FALSE
  ELSE TRUE

\* lines 354-360: the predicate handed to videos.filter
Keeps(video, f) ==
  IF f.searchQuery # << >> /\ ~matchesSearchQuery(video, f.searchQuery) THEN FALSE
  ELSE IF "all" \notin f.experienceLevel /\ ~matchesExperienceLevel(video, f.experienceLevel)
    THEN FALSE
  ELSE IF f.ratingMin > 0 /\ ~matchesRatingMin(video, f.ratingMin) THEN FALSE
  ELSE IF ~matchesDateRange(video, f.dateRange) THEN FALSE
  ELSE TRUE

\* a filter that hands back normalised copies of the records it keeps
FilterVideos_lowered(vs, f) ==
  LET kept == SelectSeq(vs, LAMBDA video : Keeps(video, f))
  IN  [k \in 1..Len(kept) |-> [kept[k] EXCEPT !.title = ToLowerCase(@)]]

\* a filter that also drops the first record it would keep
FilterVideos_dropFirst(vs, f) ==
  LET kept == SelectSeq(vs, LAMBDA video : Keeps(video, f))
  IN  IF kept = << >> THEN kept ELSE Tail(kept)

\* lines 353-361
FilterVideos(vs, f) == SelectSeq(vs, LAMBDA video : Keeps(video, f))

\* lines 319-324
DefaultFilters ==
  [experienceLevel |-> {"all"}, searchQuery |-> << >>, ratingMin |-> 0,
   dateRange |-> [start |-> None, end |-> None]]

\* metrics computed from the view instead of the collection
dynamicMetrics_fromView(vs) ==
  [totalApplicants |-> Len(filteredVideos),
   applicantsInProgress |-> (Len(filteredVideos) * 6) \div 10]

\* lines 363-367: totalApplicants: videos.length,
\* applicantsInProgress: Math.floor(videos.length * 0.6)
dynamicMetrics(vs) ==
  [totalApplicants |-> Len(vs),
   applicantsInProgress |-> (Len(vs) * 6) \div 10]

\* ------------------------------------------------------------ input sets
VideoPool ==
  { Video(<<"0">>, <<"A", "b">>, None, None),
    Video(<<"j">>, <<"b">>,
          Some(Candidate(<<"A">>, <<"a", "@">>, Some(<<"2">>))),
          Some(DateString(10, 23, 59))),
    Video(<<"-", "5">>, <<"c">>,
          Some(Candidate(<<"B">>, <<"b", "@">>, Some(<<"6", " ", "y">>))),
          Some(DateString(12, 0, 1))),
    Video(<<"-">>, <<"c">>,
          Some(Candidate(<<"B">>, <<"c", "@">>, None)),
          Some(BadDateString)),
    Video(<<"1", "4">>, <<"a">>,
          Some(Candidate(<<"C">>, <<"c", "@">>, Some(<<"5">>))),
          Some(DateString(11, 0, 1))),
    Video(<<"2">>, <<"a", "b">>,
          Some(Candidate(<<"C">>, <<"a", "@">>, Some(<<"y">>))),
          Some(DateString(9, 12, 0))),
    Video(<<"2">>, <<"c">>,
          Some(Candidate(<<"D">>, <<"d", "@">>, Some(<<"0", "x", "6">>))),
          Some(DateString(11, 0, 0))),
    Video(<<"z">>, <<"d">>,
          Some(Candidate(<<"E">>, <<"e", "@">>, Some(<< >>))),
          Some(DateString(10, 0, 0))) }

RECURSIVE SeqsUpTo(_, _)
SeqsUpTo(S, n) ==
  IF n = 0 THEN {<< >>}
  ELSE LET shorter == SeqsUpTo(S, n - 1)
       IN  shorter \cup {Append(t, x) : t \in {u \in shorter : Len(u) = n - 1}, x \in S}

FilterTypes == {"experienceLevel", "searchQuery", "ratingMin", "dateRange"}

Jan10 == NewDate(DateString(10, 0, 0))
Jan11 == NewDate(DateString(11, 0, 0))

FilterValues(filterType) ==
  CASE filterType = "experienceLevel" ->
         {{"all"}, {"0-2"}, {"3-5", "5+"}, {"all", "3-5"}, {}}
    [] filterType = "searchQuery" -> {<< >>, <<"a">>, <<"B">>}
    [] filterType = "ratingMin" -> {0, 300, 800}
    [] filterType = "dateRange" ->
         {[start |-> None, end |-> None], [start |-> Some(Jan11), end |-> None],
          [start |-> None, end |-> Some(Jan10)], [start |-> Some(Jan10), end |-> Some(Jan11)]}

\* lines 342-344, and the useMemo of lines 353-361 that follows the render
handleFilterChange(filterType, value) ==
  /\ filters' = [filters EXCEPT ![filterType] = value]
  /\ filteredVideos' = FilterVideos(videos, filters')
  /\ UNCHANGED <<videos, cvars, qvars, pvars>>

\* ------------------------------------------------------------------ chat
\* what the user types into the chat box
ChatTexts == {<<" ">>, <<"a">>}
ChatReplies == {"", "yes"}
ChatDetails == {"", "bad request"}

NoChatResp == [kind |-> "none", text |-> ""]

\* a sendChat that has run to its end; late: a sendChat invoked after it had
\* already run to its end (history, for stating properties only)
SettledChat(c) ==
  [pc |-> "done", prompt |-> << >>, resp |-> NoChatResp,
   late |-> \E d \in (c + 1)..Len(chat) : chat[d].pc = "done"]

\* a reply that shows the detail of a refusal even when it is empty
ChatShown_detailOnly(resp) ==
  CASE resp.kind = "ok" -> resp.text
    [] resp.kind = "notok" -> resp.text
    [] OTHER -> "Network error. Try again."

\* line 387: res.ok ? (data.reply || "") : (data.detail || "Something went wrong.")
\* line 389: the catch branch
ChatShown(resp) ==
  CASE resp.kind = "ok" -> resp.text
    [] resp.kind = "notok" -> IF resp.text # "" THEN resp.text ELSE "Something went wrong."
    [] OTHER -> "Network error. Try again."

\* lines 375-385: sendChat up to its await
sendChat ==
  IF Trim(chatInput) = << >>
    THEN UNCHANGED <<cvars, fvars, qvars, pvars>>
    ELSE /\ Len(chat) < MaxChat /\ Len(inv) + Len(chat) + Len(loads) < MaxRequests
         /\ isChatLoading' = TRUE
         /\ chatReply' = Null
         /\ chat' = Append(chat, [pc |-> "sent", prompt |-> chatInput, resp |-> NoChatResp,
                                  late |-> FALSE])
         /\ UNCHANGED <<chatInput, isChatOpen, fvars, qvars, pvars>>

\* line 728: onKeyDown={(e) => e.key === "Enter" && sendChat()}
PressEnterChat ==
  /\ isChatOpen
  /\ sendChat

\* lines 730-732: <button onClick={sendChat} disabled={isChatLoading || !chatInput.trim()}>
ClickSend ==
  /\ isChatOpen
  /\ ~(isChatLoading \/ Trim(chatInput) = << >>)
  /\ sendChat

\* line 725: onChange={(e) => setChatInput(e.target.value)}
OnChatChange(t) ==
  /\ isChatOpen
  /\ t # chatInput
  /\ chatInput' = t
  /\ UNCHANGED <<chatReply, isChatLoading, isChatOpen, chat, fvars, qvars, pvars>>

\* line 746: setIsChatOpen((v) => !v)
ToggleChat ==
  /\ isChatOpen' = ~isChatOpen
  /\ UNCHANGED <<chatInput, chatReply, isChatLoading, chat, fvars, qvars, pvars>>

\* line 718: setIsChatOpen(false)
CloseChat ==
  /\ isChatOpen
  /\ isChatOpen' = FALSE
  /\ UNCHANGED <<chatInput, chatReply, isChatLoading, chat, fvars, qvars, pvars>>

\* POST /recruiter-chat: a reply, a refusal with or without detail, or a
\* failure of fetch or of res.json()
ServeChat(c) ==
  /\ chat[c].pc = "sent"
  /\ \E resp \in {[kind |-> "ok", text |-> t] : t \in ChatReplies}
                 \cup {[kind |-> "notok", text |-> t] : t \in ChatDetails}
                 \cup {[kind |-> "throw", text |-> ""]} :
       chat' = [chat EXCEPT ![c].pc = "replied", ![c].resp = resp]
  /\ UNCHANGED <<chatInput, chatReply, isChatLoading, isChatOpen, fvars, qvars, pvars>>

\* sendChat that drops the response once a later sendChat has been invoked
SendChatDone_dropStale(c) ==
  /\ chat[c].pc = "replied"
  /\ IF c < Len(chat)
       THEN UNCHANGED chatReply
       ELSE chatReply' = ChatShown(chat[c].resp)
  /\ isChatLoading' = FALSE
  /\ chat' = [chat EXCEPT ![c] = SettledChat(c)]
  /\ UNCHANGED <<chatInput, isChatOpen, fvars, qvars, pvars>>

\* lines 386-392: sendChat after its await
SendChatDone(c) ==
  /\ chat[c].pc = "replied"
  /\ chatReply' = ChatShown(chat[c].resp)
  /\ isChatLoading' = FALSE
  /\ chat' = [chat EXCEPT ![c] = SettledChat(c)]
  /\ UNCHANGED <<chatInput, isChatOpen, fvars, qvars, pvars>>

\* ------------------------------------------------ RecruiterDashboardPage
SessionErrorMsg == "Unable to load user session."
SignedOutMsg == "You must be signed in to view this page."
LoadFailedMsg == "Failed to load interviews."

\* what supabase.auth.getUser() resolves to
SessionOutcomes ==
  {[userError |-> TRUE, user |-> Null], [userError |-> FALSE, user |-> Null]}
    \cup {[userError |-> FALSE, user |-> r] : r \in Recruiters}

NoSession == [userError |-> FALSE, user |-> Null]

NewLoad ==
  [pc |-> "getUser_sent", session |-> NoSession, resp |-> NoResp, nSelect |-> 0]

\* order("created_at", { ascending: false })
RECURSIVE NewestFirst(_)
NewestFirst(S) ==
  IF S = {} THEN << >>
  ELSE LET newest == CHOOSE x \in S : \A y \in S : y.created_at <= x.created_at
       IN  <<newest>> \o NewestFirst(S \ {newest})

\* select("id, title, description, created_at")
PageRow(iv) == [id |-> iv.id, created_at |-> iv.created_at]

\* lines 37-46: the effect runs loadInterviews up to its first await; the
\* effect depends on [supabase], a client made anew by createClient() on
\* every render, so it may run again
loadInterviews ==
  /\ Len(loads) < MaxLoads
  /\ Len(inv) + Len(chat) + Len(loads) < MaxRequests
  /\ pageLoading' = TRUE
  /\ pageError' = Null
  /\ loads' = Append(loads, NewLoad)
  /\ UNCHANGED <<pageInterviews, qvars, dvars>>

\* supabase.auth.getUser()
ServeGetUser(i) ==
  /\ loads[i].pc = "getUser_sent"
  /\ \E outcome \in SessionOutcomes :
       loads' = [loads EXCEPT ![i].pc = "getUser_replied", ![i].session = outcome]
  /\ UNCHANGED <<pageLoading, pageError, pageInterviews, qvars, dvars>>

\* loadInterviews that empties the list when there is no session
LoadInterviewsAfterUser_clearsList(i) ==
  /\ loads[i].pc = "getUser_replied"
  /\ IF loads[i].session.userError \/ loads[i].session.user = Null
       THEN /\ pageError' = IF loads[i].session.userError
                               THEN SessionErrorMsg ELSE SignedOutMsg
            /\ pageLoading' = FALSE
            /\ pageInterviews' = << >>
            /\ loads' = [loads EXCEPT ![i].pc = "done"]
       ELSE /\ loads' = [loads EXCEPT ![i].pc = "select_sent", ![i].nSelect = @ + 1]
            /\ UNCHANGED <<pageError, pageLoading, pageInterviews>>
  /\ UNCHANGED <<qvars, dvars>>

\* lines 47-60: loadInterviews after the session lookup
LoadInterviewsAfterUser(i) ==
  /\ loads[i].pc = "getUser_replied"
  /\ IF loads[i].session.userError
       THEN /\ pageError' = SessionErrorMsg
            /\ pageLoading' = FALSE
            /\ loads' = [loads EXCEPT ![i].pc = "done"]
       ELSE IF loads[i].session.user = Null
         THEN /\ pageError' = SignedOutMsg
              /\ pageLoading' = FALSE
              /\ loads' = [loads EXCEPT ![i].pc = "done"]
         ELSE /\ loads' = [loads EXCEPT ![i].pc = "select_sent", ![i].nSelect = @ + 1]
              /\ UNCHANGED <<pageError, pageLoading>>
  /\ UNCHANGED <<pageInterviews, qvars, dvars>>

\* interview.select(...).eq("recruiter_id", user.id).order("created_at", desc)
ServeInterviewSelect(i) ==
  /\ loads[i].pc = "select_sent"
  /\ \/ \E m \in ErrMsgs :
          loads' = [loads EXCEPT ![i].pc = "select_replied",
                                 ![i].resp = [ok |-> FALSE, msg |-> m, rows |-> << >>]]
     \/ LET mine == {PageRow(iv) : iv \in {x \in interview :
                                              x.recruiter_id = loads[i].session.user}}
        IN  loads' = [loads EXCEPT ![i].pc = "select_replied",
                                   ![i].resp = Reply(NewestFirst(mine))]
  /\ UNCHANGED <<pageLoading, pageError, pageInterviews, qvars, dvars>>

\* loadInterviews that empties the list when the select fails
LoadInterviewsDone_clearsOnError(i) ==
  /\ loads[i].pc = "select_replied"
  /\ IF ~loads[i].resp.ok
       THEN pageError' = LoadFailedMsg /\ pageInterviews' = << >>
       ELSE pageInterviews' = loads[i].resp.rows /\ UNCHANGED pageError
  /\ pageLoading' = FALSE
  /\ loads' = [loads EXCEPT ![i].pc = "done"]
  /\ UNCHANGED <<qvars, dvars>>

\* lines 62-70: loadInterviews after the interview select
LoadInterviewsDone(i) ==
  /\ loads[i].pc = "select_replied"
  /\ IF ~loads[i].resp.ok
       THEN pageError' = LoadFailedMsg /\ UNCHANGED pageInterviews
       ELSE pageInterviews' = loads[i].resp.rows /\ UNCHANGED pageError
  /\ pageLoading' = FALSE
  /\ loads' = [loads EXCEPT ![i].pc = "done"]
  /\ UNCHANGED <<qvars, dvars>>

\* ------------------------------------------------------- specification
InitStore ==
  /\ interview = {InterviewRow(1, "r1"), InterviewRow(2, "r1")}
  /\ interview_questions = {QuestionRow(1, <<"a">>, 1, 1),
                            QuestionRow(2, <<"a">>, 0, 2),
                            QuestionRow(3, <<"a">>, 2, NoInterview)}
  /\ nextQid = 4

InitQuestions(r) ==
  /\ recruiterId = r
  /\ effectDue = TRUE
  /\ questions = << >>
  /\ newQuestion = << >>
  /\ loading = FALSE
  /\ error = Null
  /\ inv = << >>
  /\ InitStore

InitFilter ==
  /\ videos = << >>
  /\ filters = DefaultFilters
  /\ filteredVideos = FilterVideos(videos, filters)

InitChat ==
  /\ chatInput = << >>
  /\ chatReply = Null
  /\ isChatLoading = FALSE
  /\ isChatOpen = FALSE
  /\ chat = << >>

InitPage ==
  /\ pageLoading = TRUE
  /\ pageError = Null
  /\ pageInterviews = << >>
  /\ loads = << >>

\* the InterviewQuestions component and the remote tables
Init == (\E r \in Recruiters : InitQuestions(r)) /\ InitFilter /\ InitChat /\ InitPage

Next ==
  \/ Mount
  \/ \E r \in Recruiters : ChangeRecruiter(r)
  \/ \E t \in Texts : OnChange(t)
  \/ PressEnter
  \/ ClickAdd
  \/ \E k \in 1..Len(questions) : ClickRemove(k)
  \/ \E i \in 1..Len(inv) : ServeSelect(i)
  \/ \E i \in 1..Len(inv) : ServeLookup(i)
  \/ \E i \in 1..Len(inv) : ServeCreate(i)
  \/ \E i \in 1..Len(inv) : ServeInsert(i)
  \/ \E i \in 1..Len(inv) : ServeDelete(i)
  \/ \E i \in 1..Len(inv) : FetchQuestionsDone(i)
  \/ \E i \in 1..Len(inv) : AddQuestionAfterLookup(i)
  \/ \E i \in 1..Len(inv) : AddQuestionAfterCreate(i)
  \/ \E i \in 1..Len(inv) : AddQuestionDone(i)
  \/ \E i \in 1..Len(inv) : DeleteQuestionDone(i)

Spec == Init /\ [][Next]_vars

\* the filter engine of Dashboard over every fetched collection
InitVideos ==
  /\ videos \in SeqsUpTo(VideoPool, MaxVideos)
  /\ filters = DefaultFilters
  /\ filteredVideos = FilterVideos(videos, filters)

InitF == InitQuestions("r1") /\ InitVideos /\ InitChat /\ InitPage

NextF == \E filterType \in FilterTypes : \E value \in FilterValues(filterType) :
           handleFilterChange(filterType, value)

SpecFilter == InitF /\ [][NextF]_vars

\* requests that overlap: the chat box and the question fetches
NextOverlap ==
  \/ Mount
  \/ \E r \in Recruiters : ChangeRecruiter(r)
  \/ \E i \in 1..Len(inv) : ServeSelect(i)
  \/ \E i \in 1..Len(inv) : FetchQuestionsDone(i)
  \/ ToggleChat
  \/ CloseChat
  \/ \E t \in ChatTexts : OnChatChange(t)
  \/ PressEnterChat
  \/ ClickSend
  \/ \E c \in 1..Len(chat) : ServeChat(c)
  \/ \E c \in 1..Len(chat) : SendChatDone(c)

InitOverlap == InitQuestions("r1") /\ InitFilter /\ InitChat /\ InitPage

SpecOverlap == InitOverlap /\ [][NextOverlap]_vars

\* the remote store answers every request and every handler resumes on its
\* answer
NextRemote ==
  \/ \E i \in 1..Len(inv) : ServeSelect(i)
  \/ \E i \in 1..Len(inv) : ServeLookup(i)
  \/ \E i \in 1..Len(inv) : ServeCreate(i)
  \/ \E i \in 1..Len(inv) : ServeInsert(i)
  \/ \E i \in 1..Len(inv) : ServeDelete(i)
  \/ \E i \in 1..Len(inv) : FetchQuestionsDone(i)
  \/ \E i \in 1..Len(inv) : AddQuestionAfterLookup(i)
  \/ \E i \in 1..Len(inv) : AddQuestionAfterCreate(i)
  \/ \E i \in 1..Len(inv) : AddQuestionDone(i)
  \/ \E i \in 1..Len(inv) : DeleteQuestionDone(i)

SpecLive == Spec /\ WF_vars(NextRemote)

\* the component some time after construction: the list of r1 has been loaded,
\* the parent has just rendered the component for r2 and the fetch of the
\* effect (lines 52-54) is in flight; r2 owns no interview. Invocations that
\* ended before are not recorded.
InitSwitched ==
  /\ recruiterId = "r2"
  /\ effectDue = FALSE
  /\ questions = <<ClientRow(QuestionRow(2, <<"a">>, 0, 2), "r1"),
                   ClientRow(QuestionRow(1, <<"a">>, 1, 1), "r1")>>
  /\ newQuestion = << >>
  /\ loading = TRUE
  /\ error = Null
  /\ InitStore
  /\ inv = <<[kind |-> "fetch", pc |-> "select_sent", rid |-> "r2",
               qs |-> questions, text |-> << >>, target |-> 0,
               interviewId |-> NoInterview, resp |-> NoResp,
               nLookup |-> 0, nCreate |-> 0, nInsert |-> 0, nDelete |-> 0, nSelect |-> 1,
               overlapped |-> FALSE, ivAtStart |-> {1, 2}, after |-> {},
               madeI |-> 0, madeQ |-> 0, inSync |-> TRUE,
               seenQ |-> {}, seenI |-> {}, lookedUp |-> {}]>>

InitAdds == InitSwitched /\ InitFilter /\ InitChat /\ InitPage

\* the fetch in flight and the additions typed meanwhile
NextAdds ==
  \/ \E t \in Texts : OnChange(t)
  \/ PressEnter
  \/ \E i \in 1..Len(inv) : ServeSelect(i)
  \/ \E i \in 1..Len(inv) : ServeLookup(i)
  \/ \E i \in 1..Len(inv) : ServeCreate(i)
  \/ \E i \in 1..Len(inv) : ServeInsert(i)
  \/ \E i \in 1..Len(inv) : FetchQuestionsDone(i)
  \/ \E i \in 1..Len(inv) : AddQuestionAfterLookup(i)
  \/ \E i \in 1..Len(inv) : AddQuestionAfterCreate(i)
  \/ \E i \in 1..Len(inv) : AddQuestionDone(i)

SpecAdds == InitAdds /\ [][NextAdds]_vars

\* remote reads: the interview list of the page and the question fetches
NextReads ==
  \/ loadInterviews
  \/ \E i \in 1..Len(loads) : ServeGetUser(i)
  \/ \E i \in 1..Len(loads) : LoadInterviewsAfterUser(i)
  \/ \E i \in 1..Len(loads) : ServeInterviewSelect(i)
  \/ \E i \in 1..Len(loads) : LoadInterviewsDone(i)
  \/ Mount
  \/ \E r \in Recruiters : ChangeRecruiter(r)
  \/ \E i \in 1..Len(inv) : ServeSelect(i)
  \/ \E i \in 1..Len(inv) : FetchQuestionsDone(i)

SpecReads == InitOverlap /\ [][NextReads]_vars

\* ================================================================ claims
\* ---------------------------------------------------------------------- C1
\* C1: every record of the filtered view is a record of the fetched
\* collection, in every state reached by any sequence of filter changes.
C1_FilteredSubset ==
  \A k \in 1..Len(filteredVideos) :
    \E j \in 1..Len(videos) : videos[j] = filteredVideos[k]

\* criteria other than the defaults have dropped some records and kept others
C1_Witness ==
  /\ filters # DefaultFilters
  /\ 0 < Len(filteredVideos)
  /\ Len(filteredVideos) < Len(videos)

\* ---------------------------------------------------------------------- C2
\* C2: add-question flow, run sequentially.  A successful addQuestion of a
\* recruiter who had no interview asks once for a new interview and inserts
\* its question under that interview's id; a successful addQuestion that
\* follows a successful one of the same recruiter asks for no interview and
\* inserts its question under an interview that already existed.
C2_AddCreatesOnceThenReuses ==
  \A j \in 1..Len(inv) :
    (inv[j].kind = "add" /\ inv[j].pc = "done" /\ inv[j].resp.ok /\ ~inv[j].overlapped) =>
      /\ inv[j].nLookup = 1
      /\ inv[j].nInsert = 1
      /\ \A q \in interview_questions :
           q.id = inv[j].madeQ => q.interview_id = inv[j].interviewId
      /\ IF inv[j].ivAtStart = {}
           THEN /\ inv[j].nCreate = 1
                /\ inv[j].interviewId = inv[j].madeI
                /\ InterviewRow(inv[j].madeI, inv[j].rid) \in interview
           ELSE /\ inv[j].nCreate = 0
                /\ inv[j].interviewId \in inv[j].ivAtStart
      /\ (\E i \in inv[j].after : inv[i].rid = inv[j].rid) =>
           /\ inv[j].nCreate = 0
           /\ inv[j].ivAtStart # {}

\* a first add that created the interview, then a second that reused it
C2_Witness ==
  \E i, j \in 1..Len(inv) :
    /\ i \in inv[j].after
    /\ inv[i].rid = inv[j].rid
    /\ ~inv[i].overlapped /\ inv[i].ivAtStart = {} /\ inv[i].nCreate = 1
    /\ inv[j].kind = "add" /\ inv[j].pc = "done" /\ inv[j].resp.ok /\ ~inv[j].overlapped
    /\ inv[j].nCreate = 0
    /\ inv[j].interviewId = inv[i].madeI

\* ---------------------------------------------------------------------- C3
RECURSIVE Without(_, _)
Without(list, id) ==
  IF list = << >> THEN << >>
  ELSE IF Head(list).id = id THEN Without(Tail(list), id)
       ELSE <<Head(list)>> \o Without(Tail(list), id)

\* C3: a deleteQuestion(id) makes one remote delete; when the delete succeeds
\* the list becomes the list it was without the entries whose id is id, the
\* others in their order; when it fails the list stays and error is the
\* remote message.
C3_DeleteFlow ==
  [][\A i \in 1..Len(inv) :
       (inv[i].pc = "delete_replied" /\ inv'[i].pc # inv[i].pc) =>
         /\ inv[i].nDelete = 1
         /\ inv'[i].nDelete = 1
         /\ inv'[i].pc = "done"
         /\ IF inv[i].resp.ok
              THEN questions' = Without(questions, inv[i].target)
              ELSE questions' = questions /\ error' = inv[i].resp.msg]_vars

\* one delete has succeeded and one has failed
C3_Witness ==
  \E i, j \in 1..Len(inv) :
    /\ inv[i].kind = "delete" /\ inv[i].pc = "done" /\ inv[i].resp.ok
    /\ inv[i].target \notin Ids(questions)
    /\ inv[j].kind = "delete" /\ inv[j].pc = "done" /\ ~inv[j].resp.ok
    /\ inv[j].target \in Ids(questions)
    /\ error \in ErrMsgs

\* ---------------------------------------------------------------------- C4
AddReplied == {"lookup_replied", "create_replied", "insert_replied"}

\* C4: when the interview lookup, the interview creation or the question
\* insert of an addQuestion fails, the handler ends there: the list and the
\* typed text stay, error is the remote message, no request is made again.
C4_AddFailure ==
  [][\A i \in 1..Len(inv) :
       (/\ inv[i].kind = "add"
        /\ inv[i].pc \in AddReplied
        /\ ~inv[i].resp.ok
        /\ inv'[i].pc # inv[i].pc) =>
         /\ inv'[i].pc = "done"
         /\ questions' = questions
         /\ newQuestion' = newQuestion
         /\ error' = inv[i].resp.msg
         /\ inv[i].resp.msg \in ErrMsgs
         /\ inv'[i].nLookup = 1
         /\ inv'[i].nCreate = inv[i].nCreate /\ inv[i].nCreate <= 1
         /\ inv'[i].nInsert = inv[i].nInsert /\ inv[i].nInsert <= 1]_vars

\* an add has failed at the interview creation and another at the question insert
C4_Witness ==
  \E i, j \in 1..Len(inv) :
    /\ inv[i].kind = "add" /\ inv[i].pc = "done" /\ ~inv[i].resp.ok
    /\ inv[i].nCreate = 1 /\ inv[i].nInsert = 0
    /\ inv[j].kind = "add" /\ inv[j].pc = "done" /\ ~inv[j].resp.ok
    /\ inv[j].nInsert = 1 /\ inv[j].madeQ = 0
    /\ error \in ErrMsgs
    /\ newQuestion # << >>

\* ---------------------------------------------------------------------- C5
\* C5: the local list is patched only by a remote success: outside a reload,
\* an id leaves the list only when its delete has succeeded and an id enters
\* it only when its insert has succeeded; nothing is applied and taken back.
C5_PatchOnlyAfterSuccess ==
  [][LET Ends(from) == {k \in 1..Len(inv) : inv[k].pc = from /\ inv'[k].pc = "done"}
         deleted == {inv[k].target : k \in {e \in Ends("delete_replied") : inv[e].resp.ok}}
         added == {inv[k].madeQ : k \in {e \in Ends("insert_replied") :
                                           inv[e].resp.ok /\ Len(inv[e].resp.rows) > 0}}
     IN  Ends("select_replied") = {} =>
           /\ Ids(questions) \ Ids(questions') \subseteq deleted
           /\ Ids(questions') \ Ids(questions) \subseteq added]_vars

\* ---------------------------------------------------------------------- C6
\* C6: loading is true whenever an add or a delete is in flight.
C6_LoadingWhileMutating ==
  (\E i \in 1..Len(inv) : inv[i].kind \in {"add", "delete"} /\ InFlight(i)) => loading

\* ---------------------------------------------------------------------- C7
\* C7: a successful fetchQuestions for recruiter R leaves in the list exactly
\* the questions of the response whose interview belongs to R, each once, in
\* ascending order_index.
C7_FetchExactlyOwned ==
  [][\A i \in 1..Len(inv) :
       (inv[i].pc = "select_replied" /\ inv[i].resp.ok /\ inv'[i].pc = "done") =>
         LET owned == {q \in inv[i].seenQ :
                         \E iv \in inv[i].seenI :
                           iv.id = q.interview_id /\ iv.recruiter_id = inv[i].rid}
         IN  /\ {BaseRow(questions'[k]) : k \in 1..Len(questions')} = owned
             /\ Len(questions') = Cardinality(owned)
             /\ \A k \in 1..Len(questions') : questions'[k].interview = inv[i].rid
             /\ \A a, b \in 1..Len(questions') :
                  a < b => questions'[a].order_index <= questions'[b].order_index]_vars

\* a fetch has kept the recruiter's questions and dropped another recruiter's
\* question and a question under no interview
C7_Witness ==
  /\ Len(inv) > 0
  /\ inv[Len(inv)].kind = "fetch" /\ inv[Len(inv)].rid = recruiterId
  /\ \A i \in 1..Len(inv) : inv[i].pc = "done"
  /\ error = Null
  /\ Len(questions) >= 2
  /\ \A k \in 1..Len(questions) : questions[k].interview = recruiterId
  /\ \E q \in interview_questions :
       \E iv \in interview : iv.id = q.interview_id /\ iv.recruiter_id # recruiterId
  /\ \E q \in interview_questions : \A iv \in interview : iv.id # q.interview_id

\* ---------------------------------------------------------------------- C8
Attaching(i) ==
  /\ inv[i].kind = "add"
  /\ inv[i].pc \in {"insert_sent", "insert_replied"}
  /\ inv[i].nCreate = 0

CreatedAt(id) == (CHOOSE iv \in interview : iv.id = id).created_at

\* C8 as stated: with several interviews, the question is attached to the
\* recruiter's most recently created one.
C8_MostRecentInterview ==
  \A i \in 1..Len(inv) :
    (Attaching(i) /\ Cardinality(inv[i].lookedUp) > 1) =>
      \A id \in inv[i].lookedUp : CreatedAt(id) <= CreatedAt(inv[i].interviewId)

\* C8: with several interviews, the question is attached to one of the
\* recruiter's own interviews, the one the lookup returned.
C8_ReturnedInterview ==
  \A i \in 1..Len(inv) :
    Attaching(i) =>
      /\ inv[i].interviewId \in inv[i].lookedUp
      /\ InterviewRow(inv[i].interviewId, inv[i].rid) \in interview
      /\ \A q \in interview_questions :
           q.id = inv[i].madeQ => q.interview_id = inv[i].interviewId

\* a question has been inserted under an interview that is not the newest
C8_Witness ==
  \E i \in 1..Len(inv) :
    /\ Attaching(i)
    /\ inv[i].pc = "insert_replied" /\ inv[i].resp.ok /\ inv[i].madeQ # 0
    /\ \E id \in inv[i].lookedUp : CreatedAt(id) > CreatedAt(inv[i].interviewId)
    /\ \E q \in interview_questions :
         q.id = inv[i].madeQ /\ q.interview_id = inv[i].interviewId

\* ---------------------------------------------------------------------- C9
\* C9: nothing cancels an outstanding request: a request that starts, or a
\* recruiter that changes, leaves every outstanding request as it is; every
\* chat response that arrives becomes the reply shown and every successful
\* fetch response that arrives becomes the list, whichever was asked first.
C9_LastArrivalWins ==
  [][/\ \A i \in 1..Len(inv) :
          /\ Len(inv') >= Len(inv)
          /\ (inv[i].pc # "done" /\ (Len(inv') > Len(inv) \/ recruiterId' # recruiterId)) =>
               inv'[i].pc = inv[i].pc /\ inv'[i].resp = inv[i].resp
          /\ (inv[i].pc = "select_replied" /\ inv'[i].pc = "done" /\ inv[i].resp.ok) =>
               questions' = FilterOwned(inv[i].resp.rows, inv[i].rid)
     /\ \A c \in 1..Len(chat) :
          /\ Len(chat') >= Len(chat)
          /\ (chat[c].pc # "done" /\ Len(chat') > Len(chat)) => chat'[c] = chat[c]
          /\ (chat[c].pc = "replied" /\ chat'[c].pc = "done") =>
               chatReply' = ChatShown(chat[c].resp)]_vars

\* the list shown is the one asked for the former recruiter, whose response
\* came after the later fetch's, and a chat response has come after a later
\* send's
C9_Witness ==
  /\ Len(inv) >= 2
  /\ inv[1].kind = "fetch" /\ inv[1].pc = "done"
  /\ inv[2].kind = "fetch" /\ inv[2].pc = "done"
  /\ inv[1].rid # inv[2].rid
  /\ recruiterId = inv[2].rid
  /\ error = Null
  /\ Len(questions) > 0
  /\ \A k \in 1..Len(questions) : questions[k].interview = inv[1].rid
  /\ Len(chat) >= 2
  /\ \A c \in 1..Len(chat) : chat[c].pc = "done"
  /\ \E c \in 1..Len(chat) : chat[c].late
  /\ chatReply # Null

\* --------------------------------------------------------------------- C10
\* C10: with the default criteria the filtered view is the whole collection
\* in its order.
C10_DefaultKeepsAll ==
  filters = DefaultFilters => filteredVideos = videos

\* the defaults are back after other criteria, over records with no
\* candidate details and with an id that has no base-36 digit
C10_Witness ==
  /\ filters = DefaultFilters
  /\ filteredVideos = videos
  /\ Len(videos) = MaxVideos
  /\ \E k \in 1..Len(videos) : mockRating(videos[k]).nan
  /\ \E k \in 1..Len(videos) : videos[k].candidate_details = None

\* --------------------------------------------------------------------- C11
\* C11: filtering is idempotent and deterministic: the filtered view is what
\* one more evaluation over the collection yields, and filtering the filtered
\* view again with the same criteria yields the filtered view.
C11_Idempotent ==
  /\ filteredVideos = FilterVideos(videos, filters)
  /\ FilterVideos(filteredVideos, filters) = filteredVideos

\* several criteria are set; the view has kept a record and dropped another
C11_Witness ==
  /\ filters.searchQuery # << >>
  /\ filters.ratingMin > 0
  /\ Len(filteredVideos) >= 1
  /\ Len(filteredVideos) < Len(videos)

\* --------------------------------------------------------------------- C12
PredicateNames == {"text", "experience", "rating", "date"}

\* whether a predicate is active under the criteria, and what it returns
IsActive(name, f) ==
  CASE name = "text" -> f.searchQuery # << >>
    [] name = "experience" -> "all" \notin f.experienceLevel
    [] name = "rating" -> f.ratingMin > 0
    [] name = "date" -> TRUE

Returns(name, video, f) ==
  CASE name = "text" -> matchesSearchQuery(video, f.searchQuery)
    [] name = "experience" -> matchesExperienceLevel(video, f.experienceLevel)
    [] name = "rating" -> matchesRatingMin(video, f.ratingMin)
    [] name = "date" -> matchesDateRange(video, f.dateRange)

\* what each predicate decides for the record: true when it is not active
Verdicts(video, f) ==
  [name \in PredicateNames |-> ~IsActive(name, f) \/ Returns(name, video, f)]

\* the predicates taken one after the other in the given order, stopping at
\* the first one that decides false
RECURSIVE InOrder(_, _)
InOrder(order, verdicts) ==
  IF order = << >> THEN TRUE
  ELSE IF ~verdicts[Head(order)] THEN FALSE
  ELSE InOrder(Tail(order), verdicts)

\* whatever the four predicates decide, every order of taking them ends in
\* the conjunction of what they decide
OrderIndependent ==
  \A verdicts \in [PredicateNames -> BOOLEAN] :
    \A a \in PredicateNames : \A b \in PredicateNames \ {a} :
      \A c \in PredicateNames \ {a, b} : \A d \in PredicateNames \ {a, b, c} :
        InOrder(<<a, b, c, d>>, verdicts) = \A name \in PredicateNames : verdicts[name]

\* C12: the filtered view holds exactly the records for which every active
\* predicate returns true (text when the query is not empty, experience when
\* "all" is not selected, rating when the threshold is above 0, date always),
\* and taking the four predicates in any order gives the same records.
C12_AllActivePredicates ==
  LET order == <<"date", "rating", "experience", "text">>
      all == [k \in 1..Len(videos) |-> InOrder(order, Verdicts(videos[k], filters))]
  IN  /\ OrderIndependent
      /\ Len(filteredVideos) = Cardinality({k \in 1..Len(videos) : all[k]})
      /\ \A k \in 1..Len(videos) :
           all[k] <=> \E j \in 1..Len(filteredVideos) : filteredVideos[j] = videos[k]

\* the four predicates are active; a record passes them all and another
\* fails one of them while passing another
C12_Witness ==
  /\ \A name \in PredicateNames : IsActive(name, filters)
  /\ filters.dateRange.start # None
  /\ \E k \in 1..Len(videos) :
       \A name \in PredicateNames : Returns(name, videos[k], filters)
  /\ \E k \in 1..Len(videos) :
       \E a, b \in PredicateNames :
         Returns(a, videos[k], filters) /\ ~Returns(b, videos[k], filters)
  /\ Len(filteredVideos) = 1

\* --------------------------------------------------------------------- C13
\* the strings of a record the text match reads
TextFields(video) ==
  {video.title} \cup
  (IF video.candidate_details = None THEN {}
   ELSE LET candidate == video.candidate_details[1]
        IN  {candidate.full_name, candidate.email} \cup
            (IF candidate.experience = None THEN {} ELSE {candidate.experience[1]}))

\* q occurs in field at some offset, letters compared without their case
OccursIgnoringCase(q, field) ==
  \E offset \in 0..(Len(field) - Len(q)) :
    \A k \in 1..Len(q) : Lower(field[offset + k]) = Lower(q[k])

OtherCriteriaOpen(f) ==
  /\ "all" \in f.experienceLevel
  /\ f.ratingMin = 0
  /\ f.dateRange = [start |-> None, end |-> None]

\* C13: for a query that is not empty a record matches iff the query occurs,
\* case ignored, in its title, or in the full name, email or experience of
\* its candidate details when it has them; a record whose title is the query
\* matches; with an empty query no record is dropped on account of the text.
C13_TextMatch ==
  /\ \A k \in 1..Len(videos) :
       /\ matchesSearchQuery(videos[k], videos[k].title)
       /\ filters.searchQuery # << >> =>
            (matchesSearchQuery(videos[k], filters.searchQuery) <=>
               \E field \in TextFields(videos[k]) :
                 OccursIgnoringCase(filters.searchQuery, field))
  /\ OtherCriteriaOpen(filters) =>
       filteredVideos =
         SelectSeq(videos, LAMBDA video :
                     \/ filters.searchQuery = << >>
                     \/ \E field \in TextFields(video) :
                          OccursIgnoringCase(filters.searchQuery, field))

\* under one query, a record is kept because its title is the query and
\* another because a candidate field holds the query in the other case
C13_Witness ==
  /\ filters.searchQuery # << >>
  /\ OtherCriteriaOpen(filters)
  /\ \E j \in 1..Len(filteredVideos) : filteredVideos[j].title = filters.searchQuery
  /\ \E j \in 1..Len(filteredVideos) :
       /\ ~Includes(filteredVideos[j].title, filters.searchQuery)
       /\ \A field \in TextFields(filteredVideos[j]) : ~Includes(field, filters.searchQuery)

\* --------------------------------------------------------------------- C14
Buckets == {"0-2", "3-5", "5+"}

InBucket(n, level) ==
  CASE level = "0-2" -> 0 <= n /\ n <= 2
    [] level = "3-5" -> 3 <= n /\ n <= 5
    [] level = "5+" -> n > 5
    [] OTHER -> FALSE

\* the experience string of a record, empty when it has none
ExperienceOf(video) ==
  IF video.candidate_details = None \/ video.candidate_details[1].experience = None
    THEN << >>
    ELSE video.candidate_details[1].experience[1]

\* the integer written in decimal at the head of the string, if there is one
LeadingInteger(s) == ParseInt(s, 10)

\* C14: a record whose experience string has the leading integer n matches
\* "0-2" iff 0 <= n <= 2, "3-5" iff 3 <= n <= 5 and "5+" iff n > 5, so it
\* matches at most one bucket, and it matches a selection of several buckets
\* iff it matches one of them.
C14_ExperienceBuckets ==
  \A k \in 1..Len(videos) :
    LET n == LeadingInteger(ExperienceOf(videos[k]))
    IN  (~n.nan /\ "all" \notin filters.experienceLevel) =>
          /\ \A level \in Buckets :
               matchesExperienceLevel(videos[k], {level}) <=> InBucket(n.v, level)
          /\ Cardinality({level \in Buckets :
                            matchesExperienceLevel(videos[k], {level})}) <= 1
          /\ matchesExperienceLevel(videos[k], filters.experienceLevel) <=>
               \E level \in filters.experienceLevel : InBucket(n.v, level)
          /\ (filters.searchQuery = << >>
              /\ filters.ratingMin = 0 /\ filters.dateRange.start = None
              /\ filters.dateRange.end = None) =>
               ((\E j \in 1..Len(filteredVideos) : filteredVideos[j] = videos[k]) <=>
                  \E level \in filters.experienceLevel : InBucket(n.v, level))

\* --------------------------------------------------------------------- C15
\* the record has no candidate details, no experience string, an empty one,
\* or one with no integer at its head
NoParseableExperience(video) ==
  \/ video.candidate_details = None
  \/ video.candidate_details[1].experience = None
  \/ ExperienceOf(video) = << >>
  \/ LeadingInteger(ExperienceOf(video)).nan

InView(video) == \E j \in 1..Len(filteredVideos) : filteredVideos[j] = video

\* C15: a record with no parseable experience matches no bucket and no
\* selection of buckets, and is not in the view when "all" is not selected;
\* when "all" is selected, alone or with buckets, a record is in the view iff
\* the text, rating and date predicates let it in.
C15_NoExperienceAndAll ==
  \A k \in 1..Len(videos) :
    /\ NoParseableExperience(videos[k]) =>
         /\ \A level \in Buckets : ~matchesExperienceLevel(videos[k], {level})
         /\ ~matchesExperienceLevel(videos[k], filters.experienceLevel)
         /\ "all" \notin filters.experienceLevel => ~InView(videos[k])
    /\ "all" \in filters.experienceLevel =>
         LET verdicts == Verdicts(videos[k], filters)
         IN  InView(videos[k]) <=>
               (verdicts["text"] /\ verdicts["rating"] /\ verdicts["date"])

\* buckets are selected together with "all", and the view holds a record with
\* no parseable experience and a record of a bucket that is not selected
C15_Witness ==
  /\ "all" \in filters.experienceLevel
  /\ filters.experienceLevel # {"all"}
  /\ \E j \in 1..Len(filteredVideos) : NoParseableExperience(filteredVideos[j])
  /\ \E j \in 1..Len(filteredVideos) :
       /\ ~NoParseableExperience(filteredVideos[j])
       /\ ~matchesExperienceLevel(filteredVideos[j], filters.experienceLevel)

\* --------------------------------------------------------------------- C16
\* the rating of a record that has the identifier and nothing else
RatingOfId(id) == mockRating(Video(id, << >>, None, None))

\* C16: the rating of a record is the rating of its identifier, so records
\* with one identifier have one rating; under a threshold above 0 a record
\* passes iff its rating is at least the threshold; under threshold 0 no
\* record is dropped on account of its rating, whatever its identifier.
C16_RatingThreshold ==
  /\ \A k \in 1..Len(videos) :
       /\ mockRating(videos[k]) = RatingOfId(videos[k].id)
       /\ \A j \in 1..Len(videos) :
            videos[j].id = videos[k].id =>
              /\ mockRating(videos[j]) = mockRating(videos[k])
              /\ matchesRatingMin(videos[j], filters.ratingMin)
                   = matchesRatingMin(videos[k], filters.ratingMin)
       /\ matchesRatingMin(videos[k], filters.ratingMin) <=>
            /\ ~RatingOfId(videos[k].id).nan
            /\ RatingOfId(videos[k].id).v >= filters.ratingMin
  /\ (filters.searchQuery = << >> /\ "all" \in filters.experienceLevel
      /\ filters.dateRange = [start |-> None, end |-> None]) =>
       IF filters.ratingMin = 0
         THEN filteredVideos = videos
         ELSE filteredVideos =
                SelectSeq(videos, LAMBDA video :
                            /\ ~RatingOfId(video.id).nan
                            /\ RatingOfId(video.id).v >= filters.ratingMin)

\* under a threshold above 0 two records with one identifier and different
\* other fields are both in the view
C16_Witness ==
  /\ filters.ratingMin > 0
  /\ Len(filteredVideos) = 2
  /\ filteredVideos[1].id = filteredVideos[2].id
  /\ filteredVideos[1].title # filteredVideos[2].title
  /\ RatingOfId(filteredVideos[1].id).v >= filters.ratingMin

\* --------------------------------------------------------------------- C17
OtherThanDateOpen(f) ==
  /\ f.searchQuery = << >>
  /\ "all" \in f.experienceLevel
  /\ f.ratingMin = 0

\* C17: a record without a creation timestamp passes the date predicate under
\* every range, with a start, an end, both or none, and the date range never
\* takes it out of the view.
C17_NoTimestamp ==
  \A k \in 1..Len(videos) :
    videos[k].created_at = None =>
      /\ matchesDateRange(videos[k], filters.dateRange)
      /\ \A range \in FilterValues("dateRange") : matchesDateRange(videos[k], range)
      /\ OtherThanDateOpen(filters) => InView(videos[k])

\* under a range with a start and an end, the view holds a record without a
\* timestamp and has lost a record with one
C17_Witness ==
  /\ filters.dateRange.start # None
  /\ filters.dateRange.end # None
  /\ \E j \in 1..Len(filteredVideos) : filteredVideos[j].created_at = None
  /\ \E k \in 1..Len(videos) :
       /\ videos[k].created_at # None
       /\ ~matchesDateRange(videos[k], filters.dateRange)
       /\ ~InView(videos[k])

\* --------------------------------------------------------------------- C18
\* the instant a timestamp names, in minutes, when it names one
InstantOf(ts) == ts.day * 24 * 60 + ts.hour * 60 + ts.minute

StrictlyBefore(ts, bound) == ts.valid /\ InstantOf(ts) < bound.v

ExactlyAt(ts, bound) == ts.valid /\ InstantOf(ts) = bound.v

\* C18: under a start bound a record with a timestamp strictly before the
\* bound fails the date predicate and is not in the view; with no end bound
\* it fails iff its timestamp is strictly before the start, so a record dated
\* exactly at the start passes; with no bound at all every record passes.
C18_StartBound ==
  LET range == filters.dateRange
  IN  /\ \A k \in 1..Len(videos) :
           videos[k].created_at # None =>
             LET ts == videos[k].created_at[1]
             IN  /\ (range.start # None /\ StrictlyBefore(ts, range.start[1])) =>
                      ~matchesDateRange(videos[k], range) /\ ~InView(videos[k])
                 /\ (range.start # None /\ range.end = None) =>
                      (matchesDateRange(videos[k], range) <=>
                         ~StrictlyBefore(ts, range.start[1]))
                 /\ (range.start # None /\ ExactlyAt(ts, range.start[1])) =>
                      matchesDateRange(videos[k], range)
                 /\ (range.start = None /\ range.end = None) =>
                      matchesDateRange(videos[k], range)
      /\ (OtherThanDateOpen(filters) /\ range.end = None) =>
           filteredVideos =
             SelectSeq(videos, LAMBDA video :
                         \/ range.start = None
                         \/ video.created_at = None
                         \/ ~StrictlyBefore(video.created_at[1], range.start[1]))

\* under a start bound with no end, the view holds a record dated exactly at
\* the start and has lost a record dated the minute before the start's day
C18_Witness ==
  /\ filters.dateRange.start # None
  /\ filters.dateRange.end = None
  /\ \E j \in 1..Len(filteredVideos) :
       /\ filteredVideos[j].created_at # None
       /\ ExactlyAt(filteredVideos[j].created_at[1], filters.dateRange.start[1])
  /\ \E k \in 1..Len(videos) :
       /\ videos[k].created_at # None
       /\ StrictlyBefore(videos[k].created_at[1], filters.dateRange.start[1])
       /\ ~InView(videos[k])

\* --------------------------------------------------------------------- C19
EndJan10 == [start |-> None, end |-> Some(Jan10)]

Jan10At2359 == Some(DateString(10, 23, 59))

Jan12At0001 == Some(DateString(12, 0, 1))

\* C19: with the end date 2024-01-10 and no start, a record dated 2024-01-10
\* 23:59 passes the date predicate and is in the view when nothing else drops
\* it; a record dated 2024-01-12 00:01 fails it and is not in the view.
C19_EndJan10 ==
  filters.dateRange = EndJan10 =>
    \A k \in 1..Len(videos) :
      /\ videos[k].created_at = Jan10At2359 =>
           /\ matchesDateRange(videos[k], filters.dateRange)
           /\ OtherThanDateOpen(filters) => InView(videos[k])
      /\ videos[k].created_at = Jan12At0001 =>
           /\ ~matchesDateRange(videos[k], filters.dateRange)
           /\ ~InView(videos[k])

\* both records are in the collection under that range; the view holds the first only
C19_Witness ==
  /\ filters.dateRange = EndJan10
  /\ Len(videos) = 2
  /\ videos[1].created_at = Jan12At0001
  /\ videos[2].created_at = Jan10At2359
  /\ filteredVideos = <<videos[2]>>

\* --------------------------------------------------------------------- C20
DayOf(bound) == bound.v \div MinutesPerDay

\* the first instant after the day that follows the day of the bound
EndOfDayAfter(bound) == (DayOf(bound) + 2) * MinutesPerDay

\* C20 as stated: under an end bound every record dated on the end date
\* passes, and a record fails on account of the end only when its timestamp
\* lies beyond the end of the day following the end date.
C20_EndOfDayAfter ==
  LET range == filters.dateRange
  IN  (range.end # None /\ range.start = None) =>
        \A k \in 1..Len(videos) :
          videos[k].created_at # None =>
            LET ts == videos[k].created_at[1]
            IN  /\ (ts.valid /\ ts.day = DayOf(range.end[1])) =>
                     matchesDateRange(videos[k], range)
                /\ ~matchesDateRange(videos[k], range) =>
                     ts.valid /\ InstantOf(ts) >= EndOfDayAfter(range.end[1])

\* C20: under an end bound every record dated on the end date passes, and a
\* record fails on account of the end iff its timestamp is strictly later
\* than one day after the end bound: the boundary is the start of the day
\* that follows the end date, and a record dated exactly there passes.
C20_OneDayAfterEnd ==
  LET range == filters.dateRange
  IN  (range.end # None /\ range.start = None) =>
        /\ \A k \in 1..Len(videos) :
             videos[k].created_at # None =>
               LET ts == videos[k].created_at[1]
               IN  /\ (ts.valid /\ ts.day = DayOf(range.end[1])) =>
                        matchesDateRange(videos[k], range)
                   /\ ~matchesDateRange(videos[k], range) <=>
                        (ts.valid /\ InstantOf(ts) > range.end[1].v + MinutesPerDay)
        /\ OtherThanDateOpen(filters) =>
             filteredVideos =
               SelectSeq(videos, LAMBDA video :
                           \/ video.created_at = None
                           \/ ~video.created_at[1].valid
                           \/ InstantOf(video.created_at[1])
                                <= range.end[1].v + MinutesPerDay)

\* under an end bound, the view holds a record dated at the first minute of
\* the day after the end date and has lost a record dated one minute later
C20_Witness ==
  /\ filters.dateRange.end # None
  /\ filters.dateRange.start = None
  /\ \E j \in 1..Len(filteredVideos) :
       /\ filteredVideos[j].created_at # None
       /\ filteredVideos[j].created_at[1].valid
       /\ InstantOf(filteredVideos[j].created_at[1])
            = filters.dateRange.end[1].v + MinutesPerDay
  /\ \E k \in 1..Len(videos) :
       /\ videos[k].created_at # None
       /\ videos[k].created_at[1].valid
       /\ InstantOf(videos[k].created_at[1])
            = filters.dateRange.end[1].v + MinutesPerDay + 1
       /\ ~InView(videos[k])

\* --------------------------------------------------------------------- C21
\* C21: under every criteria, total applicants is the size of the fetched
\* collection and in progress is the greatest integer that is at most 60% of
\* it; a collection of 10 records gives 6.
C21_Metrics ==
  LET metrics == dynamicMetrics(videos)
      tenRecords == [k \in 1..10 |-> Video(<<"0">>, << >>, None, None)]
  IN  /\ metrics.totalApplicants = Len(videos)
      /\ 10 * metrics.applicantsInProgress <= 6 * Len(videos)
      /\ 6 * Len(videos) < 10 * (metrics.applicantsInProgress + 1)
      /\ dynamicMetrics(tenRecords).applicantsInProgress = 6
      /\ dynamicMetrics(tenRecords).totalApplicants = 10

\* the criteria have emptied the view of a collection whose metrics are not zero
C21_Witness ==
  /\ filters # DefaultFilters
  /\ filteredVideos = << >>
  /\ dynamicMetrics(videos).totalApplicants = MaxVideos
  /\ dynamicMetrics(videos).applicantsInProgress > 0

\* --------------------------------------------------------------------- C22
\* C22: when the session lookup of loadInterviews returns an error or no
\* user, the handler ends there: it has asked for no interview list, its
\* message is the error shown, the interview list stays as it was and the
\* loading flag is false.
C22_SessionErrors ==
  [][\A i \in 1..Len(loads) :
       (/\ loads[i].pc = "getUser_replied"
        /\ loads'[i].pc # loads[i].pc
        /\ (loads[i].session.userError \/ loads[i].session.user = Null)) =>
         /\ loads'[i].pc = "done"
         /\ loads[i].nSelect = 0 /\ loads'[i].nSelect = 0
         /\ pageError' = IF loads[i].session.userError
                           THEN SessionErrorMsg ELSE SignedOutMsg
         /\ pageInterviews' = pageInterviews
         /\ pageLoading' = FALSE]_vars

\* a list has been loaded and a later loadInterviews has ended at its
\* session lookup
C22_Witness ==
  /\ pageInterviews # << >>
  /\ ~pageLoading
  /\ pageError \in {SessionErrorMsg, SignedOutMsg}
  /\ \E i \in 1..Len(loads) :
       /\ loads[i].pc = "done"
       /\ loads[i].nSelect = 0
       /\ (loads[i].session.userError \/ loads[i].session.user = Null)

\* --------------------------------------------------------------------- C23
\* C23: when the interview select of loadInterviews or the question select of
\* fetchQuestions fails, the handler ends with its error shown and the list
\* it feeds exactly as it was, having made its one request only.
C23_FetchErrors ==
  [][/\ \A i \in 1..Len(loads) :
          (loads[i].pc = "select_replied" /\ ~loads[i].resp.ok
           /\ loads'[i].pc # loads[i].pc) =>
            /\ loads'[i].pc = "done"
            /\ loads[i].nSelect = 1 /\ loads'[i].nSelect = 1
            /\ pageError' = LoadFailedMsg
            /\ pageInterviews' = pageInterviews
     /\ \A i \in 1..Len(inv) :
          (inv[i].kind = "fetch" /\ inv[i].pc = "select_replied" /\ ~inv[i].resp.ok
           /\ inv'[i].pc # inv[i].pc) =>
            /\ inv'[i].pc = "done"
            /\ inv[i].nSelect = 1 /\ inv'[i].nSelect = 1
            /\ error' = inv[i].resp.msg
            /\ questions' = questions]_vars

\* both lists were loaded and a later read of each has failed
C23_Witness ==
  /\ pageInterviews # << >>
  /\ pageError = LoadFailedMsg
  /\ questions # << >>
  /\ error \in ErrMsgs
  /\ \A i \in 1..Len(loads) : loads[i].pc = "done"
  /\ \A i \in 1..Len(inv) : inv[i].pc = "done"

\* --------------------------------------------------------------------- C24
\* C24: a sendChat with a prompt that is not blank ends with the chat loading
\* flag false and the reply shown set to the reply of the backend when it
\* accepted, to the detail of its refusal or "Something went wrong." when the
\* refusal has none, and to "Network error. Try again." when the exchange
\* failed; it asks the backend once; a sendChat with a blank prompt asks
\* nothing.
C24_ChatExchange ==
  [][/\ \A c \in 1..Len(chat) :
          /\ (chat[c].pc = "replied" /\ chat'[c].pc # "replied") =>
               /\ chat'[c].pc = "done"
               /\ Len(chat') = Len(chat)
               /\ isChatLoading' = FALSE
               /\ chat[c].resp.kind = "ok" => chatReply' = chat[c].resp.text
               /\ (chat[c].resp.kind = "notok" /\ chat[c].resp.text # "") =>
                    chatReply' = chat[c].resp.text
               /\ (chat[c].resp.kind = "notok" /\ chat[c].resp.text = "") =>
                    chatReply' = "Something went wrong."
               /\ chat[c].resp.kind = "throw" => chatReply' = "Network error. Try again."
          /\ chat[c].pc # "sent" => chat'[c].pc # "sent"
     /\ Len(chat') > Len(chat) =>
          /\ Trim(chatInput) # << >>
          /\ Len(chat') = Len(chat) + 1
          /\ chat'[Len(chat')].pc = "sent"
          /\ chat'[Len(chat')].prompt = chatInput
          /\ isChatLoading'
     /\ Len(chat') >= Len(chat)]_vars

\* a blank prompt is in the box after two exchanges, one refused without
\* detail or failed, and nothing is in flight
C24_Witness ==
  /\ Len(chat) = 2
  /\ \A c \in 1..Len(chat) : chat[c].pc = "done"
  /\ chatReply \in {"Something went wrong.", "Network error. Try again."}
  /\ ~isChatLoading
  /\ chatInput # << >>
  /\ Trim(chatInput) = << >>

\* --------------------------------------------------------------------- C25
\* C25 as stated: when a run of add and delete requests, started with the
\* list equal to the recruiter's questions in the store and nothing else
\* running, has ended with every one of them successful, the list holds
\* exactly the recruiter's questions in the store.
C25_ListMatchesStore ==
  \A k \in 1..Len(inv) :
    ( /\ inv[k].inSync
      /\ \A j \in k..Len(inv) :
           /\ inv[j].kind \in {"add", "delete"}
           /\ inv[j].rid = recruiterId
           /\ inv[j].pc = "done"
           /\ inv[j].resp.ok )
    => Ids(questions) = OwnedIds(recruiterId)

\* --------------------------------------------------------------------- C26
\* C26 as stated: a recruiter who owned no interview at the start owns at
\* most one, however the addQuestion invocations interleave.
C26_OneInterview ==
  \A r \in Recruiters :
    LET mine == {iv \in interview : iv.recruiter_id = r}
    IN  (\A iv \in mine : \E i \in 1..Len(inv) : inv[i].madeI = iv.id)
          => Cardinality(mine) <= 1

\* --------------------------------------------------------------------- C27
\* C27 as stated: at most one add or delete is in flight at any time.
C27_OneMutationInFlight ==
  Cardinality(Running("add") \cup Running("delete")) <= 1

\* --------------------------------------------------------------------- C28
\* C28: every fetchQuestions, addQuestion and deleteQuestion ends, on each of
\* its paths, with a step that sets loading to false; when the store answers
\* every request, loading that is true becomes false again; and loading is
\* false whenever no request is in flight.
C28_LoadingReleased ==
  /\ [][\A i \in 1..Len(inv) :
          (InFlight(i) /\ inv'[i].pc = "done") => loading' = FALSE]_vars
  /\ []((\A i \in 1..Len(inv) : ~InFlight(i)) => ~loading)
  /\ loading ~> ~loading

\* a fetch, an add stopped by the error of its interview insert and an add
\* whose question insert returned nothing have all ended
C28_Witness ==
  /\ ~loading
  /\ Len(inv) = 3
  /\ \A i \in 1..Len(inv) : ~InFlight(i)
  /\ inv[1].kind = "fetch"
  /\ inv[2].kind = "add" /\ inv[2].nCreate = 1 /\ inv[2].nInsert = 0
  /\ inv[3].kind = "add" /\ inv[3].nInsert = 1 /\ ~inv[3].resp.ok /\ error = Null

\* --------------------------------------------------------------------- C29
\* C29: addQuestion with an empty or whitespace-only text does nothing. With
\* such a text in the box and no handler running, a step that is neither
\* typing, nor a click on a remove button, nor a render with another
\* recruiterId sends no request and leaves the list, loading, the error
\* message and the text as they are; and no addQuestion is ever started on
\* such a text.
C29_BlankAddIsNoOp ==
  [][/\ ( /\ Trim(newQuestion) = << >>
          /\ ~effectDue
          /\ \A i \in 1..Len(inv) : ~InFlight(i)
          /\ newQuestion' = newQuestion
          /\ recruiterId' = recruiterId
          /\ ~(Len(inv') > Len(inv) /\ inv'[Len(inv')].kind = "delete") )
        => UNCHANGED <<questions, loading, error, inv, interview, interview_questions>>
     /\ (Len(inv') > Len(inv) /\ inv'[Len(inv')].kind = "add")
        => Trim(newQuestion) # << >>]_vars

\* a whitespace-only text is in the box, the form is on screen with a loaded
\* list and nothing is running: Enter calls addQuestion on that text
C29_Witness ==
  /\ newQuestion # << >>
  /\ Trim(newQuestion) = << >>
  /\ ~effectDue
  /\ FormVisible
  /\ Len(questions) > 0
  /\ ~loading
  /\ Room
  /\ Len(inv) > 0
  /\ \A i \in 1..Len(inv) : ~InFlight(i)

\* --------------------------------------------------------------------- C30
\* C30 as stated: whenever the rating test is applied, the rating of every
\* record of the collection is one of 3, 3.25, ..., 7.75 (in hundredths:
\* 300, 325, ..., 775); so a threshold of at most 3 keeps every record and a
\* threshold above 7.75 keeps none.
C30_RatingRange ==
  filters.ratingMin > 0 =>
    \A k \in 1..Len(videos) :
      LET rating == mockRating(videos[k])
      IN  /\ ~rating.nan
          /\ rating.v \in {300 + 25 * n : n \in 0..19}
          /\ filters.ratingMin <= 300 => matchesRatingMin(videos[k], filters.ratingMin)
          /\ filters.ratingMin > 775 => ~matchesRatingMin(videos[k], filters.ratingMin)

====
